---- MODULE Spec2Model ----
(***************************************************************************)
(* Foley: the pipeline orchestrator (src/App.tsx), the provider wrappers   *)
(* (src/services/geminiService.ts) and the hybrid retrieve-or-synthesize   *)
(* asset engine (src/services/soundEngine.ts).                             *)
(*                                                                         *)
(* Two specifications share the variables:                                 *)
(*   SpecEngine  one engine instance stepping through produceSoundAsset,   *)
(*               one await at a time, with every outcome of the embedding, *)
(*               store-search, synthesis and cache-write calls;            *)
(*   Spec        the React application: user handlers interleaved with the *)
(*               awaits of startProcessing and handleManualRegenerate.     *)
(***************************************************************************)
EXTENDS Integers, Sequences, FiniteSets, TLC

VARIABLES
    \* ---- engine (soundEngine.ts) ----
    demoMode,      \* which of the two produceSoundAsset variants is built
    hasApiKey,     \* process.env.ELEVENLABS_API_KEY is set
    epc,           \* position of the produceSoundAsset invocation
    embedding,     \* local `embedding`
    eresult,       \* value the invocation returned
    ethrown,       \* an exception escaped the invocation
    hist,          \* history: outcome of each external call of this invocation
    searchCalls,   \* store-search requests made by this invocation
    synthCalls,    \* synthesis requests made by this invocation
    cacheWrite,    \* per invocation: the detached cacheToMongoDB promise
    calls          \* invocations started so far

engineVars == <<demoMode, hasApiKey, epc, embedding, eresult, ethrown, hist,
                searchCalls, synthCalls, cacheWrite, calls>>

VARIABLES
    \* ---- application (App.tsx) ----
    state,          \* useState<ProcessingState>
    file,           \* useState<File|null>: 0 is null, v > 0 the v-th upload
    vibe,           \* useState<string>: the direction label
    events,         \* useState<SoundEvent[]>: references into the heap
    spottedCache,   \* useState<SoundEvent[]|null>
    heap,           \* the SoundEvent objects the arrays refer to
    runs,           \* the startProcessing invocations and their locals
    edit,           \* the handleManualRegenerate invocation and its locals
    editingEvent,   \* useState<SoundEvent|null>: id of the event in the modal
    isRegenerating, \* useState<boolean>
    detections,     \* detections completed (the Date.now() part of event ids)
    userActions,    \* user clicks so far
    cacheVideo,     \* history: the video whose detection filled spottedCache
    manualEdits     \* history: manual edits applied so far

appVars == <<state, file, vibe, events, spottedCache, heap, runs, edit,
             editingEvent, isRegenerating, detections, userActions, cacheVideo,
             manualEdits>>

vars == <<engineVars, appVars>>

(***************************************************************************)
(* Bounds of the model.                                                    *)
(***************************************************************************)
MaxCalls == 2
MaxEvents == 2
MaxRuns == 2
MaxSharedClicks == 5
MaxUserActions == 3
MaxVerdicts == 2

\* App.tsx: const MAX_REGENERATION_ATTEMPTS = 2
MAX_REGENERATION_ATTEMPTS == 2

(***************************************************************************)
(* Values.                                                                 *)
(***************************************************************************)
Null == "null"

\* enum SoundSource
MONGODB == "MongoDB Atlas (Vector Match)"
ELEVENLABS == "ElevenLabs (Generated)"
PENDING == "Pending..."

\* audioUrl values: the stored asset of a match, a freshly synthesized data
\* URL, and the literal 'placeholder'.
StoredAudio == "stored"
SynthAudio == "synth"
Placeholder == "placeholder"

\* Similarity scores in hundredths; `match.score > 0.7`.
Threshold == 70
Scores == {50, 70, 75, 90}

NoResult == [source |-> Null, audioUrl |-> Null, log |-> Null]

(***************************************************************************)
(* geminiService.ts: getTextEmbedding.  The provider call either yields a  *)
(* vector, yields a response without values, or throws; the wrapper turns  *)
(* the last two into null.                                                 *)
(***************************************************************************)
EmbedOutcomes == {"values", "novalues", "throws"}

getTextEmbedding(outcome) ==
    IF outcome = "values" THEN [threw |-> FALSE, value |-> "vec"]
    ELSE [threw |-> FALSE, value |-> Null]

(***************************************************************************)
(* soundEngine.ts: searchMongoDB.  The response of POST /api/sounds/search *)
(* is a transport fault, a non-2xx status, a body that cannot be read, or  *)
(* a body whose documents[0] is absent or a candidate {score, audioData}.  *)
(***************************************************************************)
NoDoc == [present |-> FALSE, score |-> 0, hasAudio |-> FALSE]

Candidates == [present : {TRUE}, score : Scores, hasAudio : BOOLEAN]

(***************************************************************************)
(* server/index.js: POST /api/sounds/search.  Texts are sets of words.  The *)
(* engine's query is `${description} ${vibe} sound effect`; the store holds *)
(* at most one document here (the request asks for limit 1).               *)
(***************************************************************************)
\* index.js line 95: the simulated score of a text match, 0.75.
TextFallbackScore == 75

\* soundEngine.ts line 92: the words appended to every query.
SuffixWords == {"sound", "effect"}

\* The description and the style label of the event the engine is called for.
QueryDescription == {"door"}
QueryVibe == {"horror"}

ComposedQuery == QueryDescription \cup QueryVibe \cup SuffixWords

\* index.js line 81: query.toLowerCase().split(' ').filter(w => w.length > 2)
SearchTerms(query) == {w \in query : Len(w) > 2}

\* Stored documents: one about the same thing as the query, one about
\* something else that an engine call cached (its query field ends with the
\* appended words), one about something else stored without a query field.
NoStored == [stored |-> FALSE, description |-> {}, query |-> {}, hasAudio |-> FALSE]

StoredDocs ==
    [stored : {TRUE}, description : {{"door"}},
     query : {{"door", "horror", "sound", "effect"}}, hasAudio : BOOLEAN]
    \cup [stored : {TRUE}, description : {{"rain"}},
          query : {{"rain", "comedy", "sound", "effect"}}, hasAudio : BOOLEAN]
    \cup [stored : {TRUE}, description : {{"rain"}}, query : {{}},
          hasAudio : BOOLEAN]

\* The store as one search sees it: whether $vectorSearch can run, the top
\* document it yields, and the stored document a text search can find.
Stores ==
    [index : {"unavailable"}, vector : {NoDoc}, doc : StoredDocs \cup {NoStored}]
    \cup [index : {"available"}, vector : Candidates \cup {NoDoc},
          doc : StoredDocs \cup {NoStored}]

\* index.js lines 84-88: $or of two $regex over the joined search terms.
TextMatch(doc, terms) ==
    doc.stored /\ (doc.description \cap terms # {} \/ doc.query \cap terms # {})

\* index.js lines 51-98: the vector search, then the text search when the
\* vector search failed or returned nothing.
ServerSearch(store, query) ==
    LET results == IF store.index = "available" THEN store.vector ELSE NoDoc
    IN IF results.present
       THEN [kind |-> "json", top |-> results, via |-> "vector", store |-> store]
       ELSE IF TextMatch(store.doc, SearchTerms(query))
       THEN [kind |-> "json",
             top |-> [present |-> TRUE, score |-> TextFallbackScore,
                      hasAudio |-> store.doc.hasAudio],
             via |-> "text", store |-> store]
       ELSE [kind |-> "json", top |-> NoDoc, via |-> "text", store |-> store]

NoStore == [index |-> "unavailable", vector |-> NoDoc, doc |-> NoStored]

SearchResponses ==
    {[kind |-> k, top |-> NoDoc, via |-> "none", store |-> NoStore] :
        k \in {"throws", "notok", "badjson"}}
    \cup {ServerSearch(s, ComposedQuery) : s \in Stores}

NoSearch == [kind |-> "none", top |-> NoDoc, via |-> "none", store |-> NoStore]

\* Mutant of Accepts: the 0.85 threshold of an earlier configuration.
AcceptsAbove85(match) == match.present /\ match.score > 85 /\ match.hasAudio

Accepts(match) == match.present /\ match.score > Threshold /\ match.hasAudio

searchMongoDB(resp) ==
    IF resp.kind = "json" /\ Accepts(resp.top) THEN resp.top ELSE NoDoc

(***************************************************************************)
(* soundEngine.ts: the three results produceSoundAsset can build.          *)
(***************************************************************************)
HitResult(match) ==
    [source |-> MONGODB, audioUrl |-> StoredAudio, log |-> "cache-hit"]

SynthResult(demo, showAsAtlas) ==
    IF demo /\ showAsAtlas
    THEN [source |-> MONGODB, audioUrl |-> SynthAudio, log |-> "atlas-cache-hit"]
    ELSE [source |-> ELEVENLABS, audioUrl |-> SynthAudio, log |-> "generated"]

FallbackResult(isSimulatedMongo) ==
    IF isSimulatedMongo
    THEN [source |-> MONGODB, audioUrl |-> Placeholder, log |-> "sim-match"]
    ELSE [source |-> ELEVENLABS, audioUrl |-> Placeholder, log |-> "sim-generated"]

\* What the catch clauses of produceSoundAsset do with an exception raised
\* inside their try block: both swallow it and fall through.
SearchCatch == "swallow"

\* Mutant of SynthCatch: the handler lets the exception through.
SynthCatchRethrows == "rethrow"

SynthCatch == "swallow"


(***************************************************************************)
(* types.ts: SoundEvent.  Objects live in a heap so that the arrays of the *)
(* program (events, spottedCache, a run's finalEvents, a manual edit's     *)
(* updatedEvents) can share them, as the JavaScript arrays do.             *)
(***************************************************************************)
NoId == <<0, 0>>
NoCount == 0 - 1        \* regenerationCount: undefined

EventStatuses == {"detected", "directing", "sourcing", "reviewing",
                  "rejected", "ready"}

FreeObj == [id |-> NoId, status |-> "free", layers |-> Null, source |-> Null,
            audioUrl |-> Null, qcFeedback |-> Null,
            regenerationCount |-> NoCount, userFeedback |-> Null]

\* Live objects at any time: the cache, the visible sequence, a manual
\* edit's snapshot, each run's working sequence, and the objects a step
\* allocates before the ones it replaces are dropped.
ObjIds == 1..((MaxRuns + 4) * MaxEvents)

NoCache == [valid |-> FALSE, events |-> <<>>]

IdleRun == [pc |-> "idle", file |-> 0, vibe |-> Null, evs |-> <<>>, i |-> 0,
            rejected |-> <<>>, round |-> 0, k |-> 0, outcome |-> "none",
            detected |-> <<>>, failedAt |-> "none", final |-> <<>>,
            fromCache |-> FALSE, errorRole |-> "none", reviewDown |-> FALSE,
            calls |-> <<>>]

IdleEdit == [pc |-> "idle", eventIndex |-> 0, evt |-> 0, updated |-> <<>>,
             vibe |-> Null]

Vibes == {"Cinematic Realism", "Horror"}

Range(s) == {s[j] : j \in 1..Len(s)}

\* The n lowest free cells of heap h, in increasing order.
FreeCells(h) == {o \in ObjIds : h[o].status = "free"}

Alloc(h, n) ==
    [j \in 1..n |->
        CHOOSE o \in FreeCells(h) :
            Cardinality({q \in FreeCells(h) : q < o}) = j - 1]

\* Heap h with the cells of sequence cells set to the values of sequence vals.
Store(h, cells, vals) ==
    [o \in ObjIds |->
        IF o \in Range(cells)
        THEN vals[CHOOSE j \in 1..Len(cells) : cells[j] = o]
        ELSE h[o]]

RECURSIVE ConcatRuns(_, _)
ConcatRuns(rs, n) == IF n = 0 THEN <<>> ELSE ConcatRuns(rs, n - 1) \o rs[n].evs

\* Garbage collection and renaming: cells no array refers to are freed, and
\* the live cells are renumbered in their order of first reference, so that
\* a state does not depend on the addresses objects happened to get.
Roots(ev, ca, rs, ed) ==
    ca.events \o ev \o ConcatRuns(rs, MaxRuns) \o ed.updated
    \o (IF ed.evt = 0 THEN <<>> ELSE <<ed.evt>>)

FirstRefs(t) == {j \in 1..Len(t) : \A q \in 1..(j - 1) : t[q] # t[j]}

Order(t) == SelectSeq([j \in 1..Len(t) |-> IF j \in FirstRefs(t) THEN t[j] ELSE 0],
                      LAMBDA o : o # 0)

Rename(ord, o) == CHOOSE n \in 1..Len(ord) : ord[n] = o

RenameSeq(ord, sq) == [j \in 1..Len(sq) |-> Rename(ord, sq[j])]

\* The heap-related variables take the collected, renamed form of the
\* values a handler computed.
Publish(h, ev, ca, rs, ed) ==
    \E ord \in {Order(Roots(ev, ca, rs, ed))} :
    /\ heap' = [n \in ObjIds |-> IF n <= Len(ord) THEN h[ord[n]] ELSE FreeObj]
    /\ events' = RenameSeq(ord, ev)
    /\ spottedCache' = [ca EXCEPT !.events = RenameSeq(ord, ca.events)]
    /\ runs' = [r \in 1..MaxRuns |->
                  [rs[r] EXCEPT !.evs = RenameSeq(ord, rs[r].evs)]]
    /\ edit' = [ed EXCEPT !.updated = RenameSeq(ord, ed.updated),
                          !.evt = IF ed.evt = 0 THEN 0 ELSE Rename(ord, ed.evt)]

\* const [state, setState] = useState('idle') and the other initial values.
AppConstructed ==
    /\ state = "idle"
    /\ file = 0
    /\ vibe = "Cinematic Realism"
    /\ events = <<>>
    /\ spottedCache = NoCache
    /\ heap = [o \in ObjIds |-> FreeObj]
    /\ runs = [r \in 1..MaxRuns |-> IdleRun]
    /\ edit = IdleEdit
    /\ editingEvent = NoId
    /\ isRegenerating = FALSE
    /\ detections = 0
    /\ cacheVideo = 0
    /\ manualEdits = 0

AppInit ==
    /\ AppConstructed
    /\ userActions = 0

(***************************************************************************)
(* soundEngine.ts: produceSoundAsset, one action per await.                *)
(***************************************************************************)
NoHist == [embed |-> "none", search |-> NoSearch, synth |-> "none",
           read |-> "none"]

EngineIdle ==
    /\ demoMode \in BOOLEAN
    /\ epc = "idle"
    /\ embedding = Null
    /\ eresult = NoResult
    /\ ethrown = FALSE
    /\ hist = NoHist
    /\ searchCalls = 0
    /\ synthCalls = 0
    /\ cacheWrite = [c \in 1..MaxCalls |-> "none"]
    /\ calls = 0

EngineInit == EngineIdle /\ hasApiKey \in BOOLEAN /\ AppInit

\* The caller invokes produceSoundAsset(description, vibe): the query is
\* composed and the embedding is requested (both variants start this way).
EngineCall ==
    /\ epc \in {"idle", "done", "thrown"}
    /\ calls < MaxCalls
    /\ calls' = calls + 1
    /\ epc' = "embedding"
    /\ embedding' = Null
    /\ eresult' = NoResult
    /\ ethrown' = FALSE
    /\ hist' = NoHist
    /\ searchCalls' = 0
    /\ synthCalls' = 0
    /\ UNCHANGED <<demoMode, hasApiKey, cacheWrite>>
    /\ UNCHANGED appVars

\* Entering section 2 (generation): the synthesis request is sent only when
\* the API key is configured; otherwise control falls to the simulation.
GenerationStage ==
    IF hasApiKey
    THEN /\ epc' = "synth"
         /\ synthCalls' = synthCalls + 1
    ELSE /\ epc' = "fallback"
         /\ UNCHANGED synthCalls

\* An exception leaves the invocation.
Raise ==
    /\ epc' = "thrown"
    /\ ethrown' = TRUE
    /\ UNCHANGED synthCalls

\* `embedding = await getTextEmbedding(query)` resumes.
EmbeddingReturns ==
    /\ epc = "embedding"
    /\ \E o \in EmbedOutcomes :
         LET r == getTextEmbedding(o) IN
         /\ hist' = [hist EXCEPT !.embed = o]
         /\ embedding' = r.value
         /\ IF r.threw /\ ~demoMode /\ SearchCatch # "swallow"
            THEN Raise /\ UNCHANGED searchCalls
            ELSE IF ~demoMode /\ ~r.threw /\ r.value # Null
            THEN /\ epc' = "searching"
                 /\ searchCalls' = searchCalls + 1
                 /\ UNCHANGED <<synthCalls, ethrown>>
            ELSE GenerationStage /\ UNCHANGED <<searchCalls, ethrown>>
    /\ UNCHANGED <<demoMode, hasApiKey, eresult, cacheWrite, calls>>
    /\ UNCHANGED appVars

\* `match = await searchMongoDB(embedding, query)` resumes (hybrid variant).
SearchReturns ==
    /\ epc = "searching"
    /\ \E resp \in SearchResponses :
         LET match == searchMongoDB(resp) IN
         /\ hist' = [hist EXCEPT !.search = resp]
         /\ IF match.present
            THEN /\ epc' = "done"
                 /\ eresult' = HitResult(match)
                 /\ UNCHANGED synthCalls
            ELSE GenerationStage /\ UNCHANGED eresult
    /\ UNCHANGED <<demoMode, hasApiKey, embedding, ethrown, searchCalls,
                   cacheWrite, calls>>
    /\ UNCHANGED appVars

\* `response = await fetch(elevenlabs)` resumes.
SynthFetchReturns ==
    /\ epc = "synth"
    /\ \E o \in {"ok", "notok", "throws"} :
         /\ hist' = [hist EXCEPT !.synth = o]
         /\ IF o = "throws"
            THEN IF SynthCatch = "swallow"
                 THEN epc' = "fallback" /\ UNCHANGED ethrown
                 ELSE Raise
            ELSE /\ epc' = IF o = "ok" THEN "reading" ELSE "errtext"
                 /\ UNCHANGED ethrown
    /\ UNCHANGED <<demoMode, hasApiKey, embedding, eresult, searchCalls,
                   synthCalls, cacheWrite, calls>>
    /\ UNCHANGED appVars

\* Mutant of CachesResult: the asset is written whether or not there is an
\* embedding to store with it.
CachesAlways(emb) == TRUE

\* soundEngine.ts line 143: if (embedding)
CachesResult(emb) == emb # Null

\* Mutant of DetachedCacheWrite: the write is awaited, so it has settled
\* when the result is returned.
AwaitedCacheWrite == "stored"

\* soundEngine.ts lines 143-148: cacheToMongoDB(...).then(...) is started and
\* not awaited; the request is pending when the result is returned.
DetachedCacheWrite == "posting"

\* `await response.blob()` / `await blobToDataUrl(blob)` resume; on success
\* the cache write is started without being awaited and the result returned.
SynthBodyRead ==
    /\ epc = "reading"
    /\ \E o \in {"ok", "throws"}, showAsAtlas \in BOOLEAN :
         /\ hist' = [hist EXCEPT !.read = o]
         /\ IF o = "ok"
            THEN /\ epc' = "done"
                 /\ eresult' = SynthResult(demoMode, showAsAtlas)
                 /\ cacheWrite' = IF CachesResult(embedding)
                                  THEN [cacheWrite EXCEPT ![calls] = DetachedCacheWrite]
                                  ELSE cacheWrite
                 /\ UNCHANGED ethrown
            ELSE /\ IF SynthCatch = "swallow"
                    THEN epc' = "fallback" /\ UNCHANGED ethrown
                    ELSE Raise
                 /\ UNCHANGED <<eresult, cacheWrite>>
    /\ UNCHANGED <<demoMode, hasApiKey, embedding, searchCalls, synthCalls,
                   calls>>
    /\ UNCHANGED appVars

\* `await response.text()` of a non-2xx synthesis response resumes.
SynthErrorRead ==
    /\ epc = "errtext"
    /\ \E o \in {"ok", "throws"} :
         /\ hist' = [hist EXCEPT !.read = o]
         /\ IF o = "throws" /\ SynthCatch # "swallow"
            THEN Raise
            ELSE epc' = "fallback" /\ UNCHANGED ethrown
    /\ UNCHANGED <<demoMode, hasApiKey, embedding, eresult, searchCalls,
                   synthCalls, cacheWrite, calls>>
    /\ UNCHANGED appVars

\* Section 3: the simulated delay elapses and the placeholder is returned.
FallbackSimulation ==
    /\ epc = "fallback"
    /\ \E isSimulatedMongo \in BOOLEAN :
         eresult' = FallbackResult(isSimulatedMongo)
    /\ epc' = "done"
    /\ UNCHANGED <<demoMode, hasApiKey, embedding, ethrown, hist, searchCalls,
                   synthCalls, cacheWrite, calls>>
    /\ UNCHANGED appVars

\* cacheToMongoDB settles: the server inserted the document, answered with
\* an error, or the request failed; the promise resolves in every case.
CacheWriteSettles ==
    /\ \E c \in 1..MaxCalls, o \in {"stored", "failed"} :
         /\ cacheWrite[c] = "posting"
         /\ cacheWrite' = [cacheWrite EXCEPT ![c] = o]
    /\ UNCHANGED <<demoMode, hasApiKey, epc, embedding, eresult, ethrown, hist,
                   searchCalls, synthCalls, calls>>
    /\ UNCHANGED appVars

EngineNext ==
    \/ EngineCall
    \/ EmbeddingReturns
    \/ SearchReturns
    \/ SynthFetchReturns
    \/ SynthBodyRead
    \/ SynthErrorRead
    \/ FallbackSimulation
    \/ CacheWriteSettles

SpecEngine == EngineInit /\ [][EngineNext]_vars

\* Every result produceSoundAsset can return, per variant.
EngineResults(demo, key) ==
    (IF demo THEN {} ELSE {HitResult(d) : d \in {c \in Candidates : Accepts(c)}})
    \cup (IF key THEN {SynthResult(demo, b) : b \in BOOLEAN} ELSE {})
    \cup {FallbackResult(b) : b \in BOOLEAN}

EngineResultsCovered ==
    epc = "done" => eresult \in EngineResults(demoMode, hasApiKey)

(***************************************************************************)
(* geminiService.ts: the provider wrappers, as functions of the provider's *)
(* outcome.                                                                *)
(***************************************************************************)
SeqsUpTo(V, n) == UNION {[1..m -> V] : m \in 0..n}

Detected(d, j) ==
    [FreeObj EXCEPT !.id = <<d, j>>, !.status = "detected"]

\* runSpotterAgent: the provider throws (rethrown), answers without text
\* (no events), or answers with n items, each mapped to a 'detected' event.
SpotterOutcomes ==
    {[kind |-> "throws", n |-> 0], [kind |-> "notext", n |-> 0]}
    \cup {[kind |-> "json", n |-> n] : n \in 0..MaxEvents}

runSpotterAgent(o, d) ==
    IF o.kind = "json" THEN [j \in 1..o.n |-> Detected(d, j)] ELSE <<>>

\* runDirectorAgent: the provider throws (rethrown), answers without text
\* (the input array is returned as it is), or answers with a plan of p
\* triples; event j gets the j-th triple, or the defaults when there is none.
DirectorOutcomes(n) ==
    {[kind |-> "throws", p |-> 0], [kind |-> "notext", p |-> 0]}
    \cup {[kind |-> "json", p |-> p] : p \in 0..n}

Directed(event, j, o) ==
    [event EXCEPT !.layers = IF j <= o.p THEN "plan" ELSE "default",
                  !.status = "sourcing"]

\* Mutant of runDirectorAgent: one event per triple of the plan.
runDirectorAgentPerTriple(vals, o) ==
    [j \in 1..o.p |-> Directed(vals[j], j, o)]

\* lines 271-287: events.map(...), one new object per input event.
runDirectorAgent(vals, o) ==
    [j \in 1..Len(vals) |-> Directed(vals[j], j, o)]

\* runQCReviewerAgent: the provider throws or answers without text (every
\* event passes), or answers with a list of verdicts that is returned as
\* parsed: any event index, in any order, any number of times.  A passing
\* verdict is only ever filtered out, whatever its index, so one passing
\* verdict stands for all of them.
\* The feedback text is opaque to the application.  Each review of a run
\* (the initial one is review 0, the re-review of round k is review k) words
\* its feedback in its own way, so that a text tells which review wrote it.
FeedbackTexts == <<"too quiet", "still too quiet", "wrong timbre", "too long">>

Feedbacks(review) == {FeedbackTexts[review + 1]}

QCVerdicts(n, review) ==
    [eventIndex : 1..(n + 1), passed : {FALSE}, feedback : Feedbacks(review)]
    \cup [eventIndex : {1}, passed : {TRUE}, feedback : {"ok"}]

QCOutcomes(n, review) ==
    {[kind |-> "throws", list |-> <<>>], [kind |-> "notext", list |-> <<>>]}
    \cup {[kind |-> "json", list |-> l] : l \in SeqsUpTo(QCVerdicts(n, review), MaxVerdicts)}

\* Mutant of runQCReviewerAgent: a review that could not be obtained fails
\* every event.
runQCReviewerAgentRejectsAll(n, o) ==
    IF o.kind = "json"
    THEN o.list
    ELSE [j \in 1..n |-> [eventIndex |-> j, passed |-> FALSE,
                          feedback |-> "Review unavailable"]]

runQCReviewerAgent(n, o) ==
    IF o.kind = "json"
    THEN o.list
    ELSE [j \in 1..n |-> [eventIndex |-> j, passed |-> TRUE,
                          feedback |-> "Review unavailable"]]

(***************************************************************************)
(* App.tsx: helpers of startProcessing.                                    *)
(***************************************************************************)
Count(e) == IF e.regenerationCount = NoCount THEN 0 ELSE e.regenerationCount

Ids(h, sq) == [j \in 1..Len(sq) |-> h[sq[j]].id]

\* The lowest idle slot for a new startProcessing invocation.
FreeSlots == {r \in 1..MaxRuns : runs[r].pc \in {"idle", "finished"}}

InFlight(r) == runs[r].pc \notin {"idle", "finished"}

\* Mutant of Produced: a result without real audio is not attached.
ProducedDropsPlaceholder(e, result) ==
    IF result.audioUrl = Placeholder THEN e
    ELSE [e EXCEPT !.source = result.source, !.audioUrl = result.audioUrl,
                   !.status = "ready", !.regenerationCount = 0]

\* lines 129-132: the production loop attaches the engine's result.
Produced(e, result) ==
    [e EXCEPT !.source = result.source, !.audioUrl = result.audioUrl,
              !.status = "ready", !.regenerationCount = 0]

\* lines 158-159: the initial review marks a rejection.
Rejected(e, verdict) ==
    [e EXCEPT !.status = "rejected", !.qcFeedback = verdict.feedback]

\* lines 195-198: a regeneration round attaches the engine's result.
Regenerated(e, result) ==
    [e EXCEPT !.source = result.source, !.audioUrl = result.audioUrl,
              !.status = "reviewing", !.regenerationCount = Count(e) + 1]

\* Mutant of SkipsRegeneration: no cap on automatic regeneration.
NeverSkipsRegeneration(e) == FALSE

\* Mutant of ForcedReady: the statuses are left as the review loop left them.
NotForcedReady(e) == e

\* line 180: Skip if already regenerated too many times.
SkipsRegeneration(e) == Count(e) >= MAX_REGENERATION_ATTEMPTS

\* line 220-223: every event is copied with status 'ready'.
ForcedReady(e) == [e EXCEPT !.status = "ready"]

\* line 148: qcResults.filter(r => !r.passed)
FailedVerdicts(list) == SelectSeq(list, LAMBDA v : ~v.passed)

\* line 209: the re-review keeps the failing verdicts of events whose
\* status is 'reviewing'.
StillRejected(h, evs, list) ==
    SelectSeq(list, LAMBDA v : ~v.passed /\ h[evs[v.eventIndex]].status = "reviewing")

\* finalEvents[r.eventIndex] is undefined for a failing verdict: reading a
\* property of it throws a TypeError.
Dereferences(list, n) == \A j \in 1..Len(list) : list[j].eventIndex \in 1..n

BadIndex(list, n) ==
    CHOOSE j \in 1..Len(list) :
        /\ list[j].eventIndex \notin 1..n
        /\ \A q \in 1..(j - 1) : list[q].eventIndex \in 1..n

\* lines 155-160: the rejections are applied in order, in place; an
\* undefined event stops the loop with the earlier ones already applied.
RECURSIVE ApplyRejections(_, _, _, _)
ApplyRejections(h, evs, list, upto) ==
    IF upto = 0 THEN h
    ELSE LET g == ApplyRejections(h, evs, list, upto - 1)
             o == evs[list[upto].eventIndex]
         IN [g EXCEPT ![o] = Rejected(g[o], list[upto])]

\* The next rejection of the round, after position k, that is not skipped
\* (0 when the round is over).
NextRegen(h, evs, rejected, k) ==
    LET todo == {j \in (k + 1)..Len(rejected) :
                    ~SkipsRegeneration(h[evs[rejected[j].eventIndex]])}
    IN IF todo = {} THEN 0 ELSE CHOOSE j \in todo : \A q \in todo : j <= q

Budget == userActions < MaxUserActions

Click == userActions' = userActions + 1

(***************************************************************************)
(* App.tsx: the handlers.  Each action is the code between two awaits.     *)
(***************************************************************************)

\* Mutant of UploadedCache: an upload leaves the cache as it is.
UploadKeepsCache == spottedCache

\* line 62: setSpottedCache(null)
UploadedCache == NoCache

\* handleFileUpload: a video is chosen in the file input.
handleFileUpload ==
    /\ Budget /\ Click
    /\ file' = file + 1
    /\ state' = "idle"
    /\ cacheVideo' = 0
    /\ Publish(heap, <<>>, UploadedCache, runs, edit)
    /\ UNCHANGED <<vibe, editingEvent, isRegenerating, detections, manualEdits>>
    /\ UNCHANGED engineVars

\* The direction input and the tag buttons: setVibe, enabled while the
\* state is idle or complete.
setVibe ==
    /\ Budget /\ Click
    /\ state \in {"idle", "complete"}
    /\ \E v \in Vibes : v # vibe /\ vibe' = v
    /\ UNCHANGED <<state, file, events, spottedCache, heap, runs, edit,
                   editingEvent, isRegenerating, detections, cacheVideo,
                   manualEdits>>
    /\ UNCHANGED engineVars

\* The start button's disabled condition (App.tsx line 635).
StartEnabled == file # 0 /\ state \in {"idle", "complete"}

\* Mutant of CacheIsEmpty: the cache is never consulted.
CacheIgnored == TRUE

\* line 76: if (!spottedCache); an empty array is a cache.
CacheIsEmpty == ~spottedCache.valid

\* startProcessing up to its first await: detection when there is no cache,
\* the direction call on the cached events otherwise.
startProcessing ==
    /\ Budget /\ Click
    /\ StartEnabled
    /\ FreeSlots # {}
    /\ LET r == CHOOSE x \in FreeSlots : \A y \in FreeSlots : x <= y
           run == [IdleRun EXCEPT !.file = file, !.vibe = vibe]
       IN IF CacheIsEmpty
          THEN /\ state' = "analyzing"
               /\ Publish(heap, events, spottedCache,
                          [runs EXCEPT ![r] = [run EXCEPT !.pc = "spotting"]],
                          edit)
          ELSE /\ state' = "directing"
               /\ Publish(heap, events, spottedCache,
                          [runs EXCEPT ![r] =
                              [run EXCEPT !.pc = "directing",
                                          !.fromCache = TRUE,
                                          !.evs = spottedCache.events,
                                          !.detected = Ids(heap, spottedCache.events)]],
                          edit)
    /\ UNCHANGED <<file, vibe, editingEvent, isRegenerating, detections,
                   cacheVideo, manualEdits>>
    /\ UNCHANGED engineVars

\* line 238: addLog(AgentRole.SPOTTER, "Critical Error in processing
\* pipeline."), the one log entry of the catch clause.
CatchLogRole == "SPOTTER"

\* A startProcessing invocation that has returned: its locals are gone; the
\* record keeps how it ended and the statuses of its working sequence then.
Finished(run, outcome, at, final) ==
    [IdleRun EXCEPT !.pc = "finished", !.outcome = outcome, !.failedAt = at,
                    !.final = final, !.detected = run.detected,
                    !.errorRole = IF outcome = "failed" THEN CatchLogRole
                                  ELSE "none"]

\* The same for a run that returned after a review call; down records that
\* the review provider had failed or answered without content.
FinishedAfterReview(run, outcome, at, final, down) ==
    [Finished(run, outcome, at, final) EXCEPT !.reviewDown = down]

\* The ids and statuses of a sequence of events, and whether the last
\* review of the run rejected them.
Final(h, sq, rejected) ==
    [j \in 1..Len(sq) |->
        [id |-> h[sq[j]].id, status |-> h[sq[j]].status,
         failedLast |-> \E q \in 1..Len(rejected) : rejected[q].eventIndex = j]]

\* Mutant of RunFails: the catch clause leaves the processing state alone.
RunFailsKeepsState(r, h, at) ==
    /\ state' = state
    /\ Publish(h, events, spottedCache,
               [runs EXCEPT ![r] = Finished(runs[r], "failed", at, <<>>)], edit)

\* The catch clause of startProcessing (lines 236-241).
RunFails(r, h, at) ==
    /\ state' = "idle"
    /\ Publish(h, events, spottedCache,
               [runs EXCEPT ![r] = Finished(runs[r], "failed", at, <<>>)], edit)

\* fileToGenerativePart and runSpotterAgent resume (lines 81-88, 96-101).
SpotterReturns(r) ==
    /\ runs[r].pc = "spotting"
    /\ \E o \in SpotterOutcomes :
         IF o.kind = "throws"
         THEN /\ RunFails(r, heap, "detection")
              /\ UNCHANGED <<detections, cacheVideo>>
         ELSE LET spotted == runSpotterAgent(o, detections + 1)
                  cells == Alloc(heap, Len(spotted))
                  h == Store(heap, cells, spotted)
              IN /\ detections' = detections + 1
                 /\ cacheVideo' = runs[r].file
                 /\ state' = "directing"
                 /\ Publish(h, cells, [valid |-> TRUE, events |-> cells],
                            [runs EXCEPT ![r] =
                                [@ EXCEPT !.pc = "directing", !.evs = cells,
                                          !.detected = Ids(h, cells)]],
                            edit)
    /\ UNCHANGED <<file, vibe, editingEvent, isRegenerating, userActions,
                   manualEdits>>
    /\ UNCHANGED engineVars

\* The engine calls a run has made in its regeneration rounds, per event
\* index: none when the production loop starts.
NoCalls(n) == [j \in 1..n |-> 0]

\* After the production loop: the review call is awaited (lines 138-145).
\* With no events the loop body never runs.
AfterDirection(r, h, evs) ==
    IF Len(evs) = 0
    THEN /\ state' = "reviewing"
         /\ Publish(h, evs, spottedCache,
                    [runs EXCEPT ![r] = [@ EXCEPT !.pc = "qc", !.evs = evs,
                                                  !.calls = NoCalls(Len(evs))]],
                    edit)
    ELSE /\ state' = "generating"
         /\ Publish(h, evs, spottedCache,
                    [runs EXCEPT ![r] = [@ EXCEPT !.pc = "producing",
                                                  !.evs = evs, !.i = 1,
                                                  !.calls = NoCalls(Len(evs))]],
                    edit)

\* Mutant of FailedDirection: the first event got its layers before the
\* call failed.
FailedDirectionPartial(h, cur) ==
    IF Len(cur) = 0 THEN h
    ELSE [h EXCEPT ![cur[1]] = [@ EXCEPT !.layers = "plan",
                                         !.status = "sourcing"]]

\* geminiService.ts lines 288-291: a failed direction call is rethrown; the
\* input events have not been written to.
FailedDirection(h, cur) == h

\* runDirectorAgent resumes (lines 101-125).
DirectorReturns(r) ==
    /\ runs[r].pc = "directing"
    /\ \E o \in DirectorOutcomes(Len(runs[r].evs)) :
         LET cur == runs[r].evs IN
         IF o.kind = "throws"
         THEN RunFails(r, FailedDirection(heap, cur), "direction")
         ELSE IF o.kind = "notext" THEN AfterDirection(r, heap, cur)
         ELSE LET refined == runDirectorAgent(
                                 [j \in 1..Len(cur) |-> heap[cur[j]]], o)
                  cells == Alloc(heap, Len(refined))
                  h == Store(heap, cells, refined)
              IN AfterDirection(r, h, cells)
    /\ UNCHANGED <<file, vibe, editingEvent, isRegenerating, detections,
                   userActions, cacheVideo, manualEdits>>
    /\ UNCHANGED engineVars

\* Mutant of ProductionIndex: the loop walks the sequence from its end.
ProductionIndexReversed(i, n) == n + 1 - i

\* lines 117-118: for (let i = 0; ...; i++) { const evt = finalEvents[i]
ProductionIndex(i, n) == i

\* produceSoundAsset resumes in the production loop (lines 125-135); after
\* the last event the review call is awaited.
ProductionEngineReturns(r) ==
    /\ runs[r].pc = "producing"
    /\ \E result \in EngineResults(demoMode, hasApiKey) :
         LET evs == runs[r].evs
             o == evs[ProductionIndex(runs[r].i, Len(evs))]
             h == [heap EXCEPT ![o] = Produced(heap[o], result)]
             last == runs[r].i = Len(evs)
         IN /\ state' = IF last THEN "reviewing" ELSE state
            /\ Publish(h, evs, spottedCache,
                       [runs EXCEPT ![r] =
                           [@ EXCEPT !.pc = IF last THEN "qc" ELSE "producing",
                                     !.i = IF last THEN @ ELSE @ + 1]],
                       edit)
    /\ UNCHANGED <<file, vibe, editingEvent, isRegenerating, detections,
                   userActions, cacheVideo, manualEdits>>
    /\ UNCHANGED engineVars

\* lines 219-234: every event is forced to 'ready' and the run completes.
ForceReadyAndComplete(r, h, evs, rejected, down) ==
    LET cells == Alloc(h, Len(evs))
        g == Store(h, cells, [j \in 1..Len(evs) |-> ForcedReady(h[evs[j]])])
    IN /\ state' = "complete"
       /\ Publish(g, cells, spottedCache,
                  [runs EXCEPT ![r] =
                      FinishedAfterReview(runs[r], "complete", "none",
                                          Final(g, cells, rejected), down)],
                  edit)

\* The head of the regeneration loop (line 166) with the rejections of the
\* review that just returned: another round, up to its first await, or the
\* end of the loop.  The visible sequence is ev.
RegenerationLoop(r, h, ev, rejected, down) ==
    LET evs == runs[r].evs
        k == NextRegen(h, evs, rejected, 0)
    IN IF Len(rejected) > 0 /\ runs[r].round < MAX_REGENERATION_ATTEMPTS
       THEN /\ state' = IF k = 0 THEN "reviewing" ELSE "generating"
            /\ Publish(h, ev, spottedCache,
                       [runs EXCEPT ![r] =
                           [@ EXCEPT !.pc = IF k = 0 THEN "rereview"
                                                      ELSE "regenerating",
                                     !.rejected = rejected,
                                     !.round = @ + 1,
                                     !.k = k,
                                     !.reviewDown = down]],
                       edit)
       ELSE ForceReadyAndComplete(r, h, evs, rejected, down)

\* runQCReviewerAgent resumes for the initial review (lines 145-166, 225-234).
QCReturns(r) ==
    /\ runs[r].pc = "qc"
    /\ \E o \in QCOutcomes(Len(runs[r].evs), runs[r].round) :
         LET evs == runs[r].evs
             rejected == FailedVerdicts(runQCReviewerAgent(Len(evs), o))
         IN IF Len(rejected) = 0
            THEN /\ state' = "complete"
                 /\ Publish(heap, events, spottedCache,
                            [runs EXCEPT ![r] =
                                FinishedAfterReview(runs[r], "complete", "none",
                                                    Final(heap, evs, <<>>),
                                                    o.kind # "json")],
                            edit)
            ELSE IF ~Dereferences(rejected, Len(evs))
            THEN RunFails(r, ApplyRejections(heap, evs, rejected,
                                             BadIndex(rejected, Len(evs)) - 1),
                          "review")
            ELSE RegenerationLoop(
                     r, ApplyRejections(heap, evs, rejected, Len(rejected)),
                     evs, rejected, o.kind # "json")
    /\ UNCHANGED <<file, vibe, editingEvent, isRegenerating, detections,
                   userActions, cacheVideo, manualEdits>>
    /\ UNCHANGED engineVars

\* produceSoundAsset resumes in a regeneration round (lines 192-206); after
\* the last rejection of the round the re-review is awaited.
RegenerationEngineReturns(r) ==
    /\ runs[r].pc = "regenerating"
    /\ \E result \in EngineResults(demoMode, hasApiKey) :
         LET evs == runs[r].evs
             idx == runs[r].rejected[runs[r].k].eventIndex
             o == evs[idx]
             h == [heap EXCEPT ![o] = Regenerated(heap[o], result)]
             k == NextRegen(h, evs, runs[r].rejected, runs[r].k)
         IN /\ state' = IF k = 0 THEN "reviewing" ELSE state
            /\ Publish(h, evs, spottedCache,
                       [runs EXCEPT ![r] =
                           [@ EXCEPT !.pc = IF k = 0 THEN "rereview"
                                                      ELSE "regenerating",
                                     !.k = k,
                                     !.calls[idx] = @ + 1]],
                       edit)
    /\ UNCHANGED <<file, vibe, editingEvent, isRegenerating, detections,
                   userActions, cacheVideo, manualEdits>>
    /\ UNCHANGED engineVars

\* runQCReviewerAgent resumes for a re-review (lines 208-224).
ReReviewReturns(r) ==
    /\ runs[r].pc = "rereview"
    /\ \E o \in QCOutcomes(Len(runs[r].evs), runs[r].round) :
         LET evs == runs[r].evs
             results == runQCReviewerAgent(Len(evs), o)
         IN IF ~Dereferences(FailedVerdicts(results), Len(evs))
            THEN RunFails(r, heap, "review")
            ELSE RegenerationLoop(r, heap, events,
                                  StillRejected(heap, evs, results),
                                  o.kind # "json")
    /\ UNCHANGED <<file, vibe, editingEvent, isRegenerating, detections,
                   userActions, cacheVideo, manualEdits>>
    /\ UNCHANGED engineVars

\* handleReset: the NEW TAKE / RESET button, rendered while the state is
\* 'complete'.
ResetEvent(e) == [e EXCEPT !.status = "detected", !.layers = Null, !.source = Null]

handleReset ==
    /\ Budget /\ Click
    /\ state = "complete"
    /\ state' = "idle"
    /\ IF spottedCache.valid
       THEN LET ca == spottedCache.events
                cells == Alloc(heap, Len(ca))
                h == Store(heap, cells,
                           [j \in 1..Len(ca) |-> ResetEvent(heap[ca[j]])])
            IN Publish(h, cells, spottedCache, runs, edit)
       ELSE Publish(heap, events, spottedCache, runs, edit)
    /\ UNCHANGED <<file, vibe, editingEvent, isRegenerating, detections,
                   cacheVideo, manualEdits>>
    /\ UNCHANGED engineVars

\* EventList: the EDIT button of an event that is 'ready' and has a source
\* opens the modal on it (onEditSound = setEditingEvent).
Editable(e) == e.status = "ready" /\ e.source # Null

OpenEditModal ==
    /\ \E j \in 1..Len(events) :
         /\ Editable(heap[events[j]])
         /\ editingEvent # heap[events[j]].id
         /\ editingEvent' = heap[events[j]].id
    /\ UNCHANGED <<state, file, vibe, events, spottedCache, heap, runs, edit,
                   isRegenerating, detections, userActions, cacheVideo,
                   manualEdits>>
    /\ UNCHANGED engineVars

\* EditSoundModal: onClose.
CloseEditModal ==
    /\ editingEvent # NoId
    /\ editingEvent' = NoId
    /\ UNCHANGED <<state, file, vibe, events, spottedCache, heap, runs, edit,
                   isRegenerating, detections, userActions, cacheVideo,
                   manualEdits>>
    /\ UNCHANGED engineVars

\* events.findIndex(e => e.id === eventId): 0 stands for -1.
FindIndex(h, ev, id) ==
    LET hits == {j \in 1..Len(ev) : h[ev[j]].id = id}
    IN IF hits = {} THEN 0 ELSE CHOOSE j \in hits : \A q \in hits : j <= q

\* Mutant of ManualEditAllowed: the cap of the automatic loop applies.
ManualEditCapped(e) == Count(e) < MAX_REGENERATION_ATTEMPTS

\* lines 504-507: the only early return is for an event that is not found;
\* the event's regenerationCount is not looked at.
ManualEditAllowed(e) == TRUE

\* handleManualRegenerate up to its await (lines 500-525): the modal's
\* Regenerate button, disabled while isRegenerating.
handleManualRegenerate ==
    /\ Budget /\ Click
    /\ editingEvent # NoId
    /\ ~isRegenerating
    /\ LET eventIndex == FindIndex(heap, events, editingEvent) IN
       IF eventIndex = 0 \/ ~ManualEditAllowed(heap[events[eventIndex]])
       THEN /\ UNCHANGED <<events, spottedCache, heap, runs, edit,
                           isRegenerating>>
       ELSE LET evt == events[eventIndex]
                cell == Alloc(heap, 1)[1]
                h == [heap EXCEPT ![cell] = [heap[evt] EXCEPT !.status = "reviewing"]]
                updated == [events EXCEPT ![eventIndex] = cell]
            IN /\ isRegenerating' = TRUE
               /\ Publish(h, updated, spottedCache, runs,
                          [pc |-> "engine", eventIndex |-> eventIndex,
                           evt |-> evt, updated |-> updated, vibe |-> vibe])
    /\ UNCHANGED <<state, file, vibe, editingEvent, detections, cacheVideo,
                   manualEdits>>
    /\ UNCHANGED engineVars

\* lines 531-538: the edited event, spread from the event read at the start.
ManuallyEdited(e, result) ==
    [e EXCEPT !.audioUrl = result.audioUrl, !.source = result.source,
              !.status = "ready", !.regenerationCount = Count(e) + 1,
              !.userFeedback = "feedback"]

\* produceSoundAsset resumes in handleManualRegenerate (lines 525-549).
ManualEngineReturns ==
    /\ edit.pc = "engine"
    /\ \E result \in EngineResults(demoMode, hasApiKey) :
         LET cell == Alloc(heap, 1)[1]
             h == [heap EXCEPT ![cell] = ManuallyEdited(heap[edit.evt], result)]
             updated == [edit.updated EXCEPT ![edit.eventIndex] = cell]
         IN Publish(h, updated, spottedCache, runs, IdleEdit)
    /\ editingEvent' = NoId
    /\ isRegenerating' = FALSE
    /\ manualEdits' = manualEdits + 1
    /\ UNCHANGED <<state, file, vibe, detections, userActions, cacheVideo>>
    /\ UNCHANGED engineVars

\* The application is explored with the engine in one configuration: the
\* demo-mode variant without ELEVENLABS_API_KEY, in which every call of
\* produceSoundAsset ends in the fallback simulation.  The application
\* stores result.source and result.audioUrl and never branches on them.
Init ==
    /\ EngineIdle
    /\ demoMode = TRUE
    /\ hasApiKey = FALSE
    /\ AppInit

Next ==
    \/ handleFileUpload
    \/ setVibe
    \/ startProcessing
    \/ \E r \in 1..MaxRuns : SpotterReturns(r)
    \/ \E r \in 1..MaxRuns : DirectorReturns(r)
    \/ \E r \in 1..MaxRuns : ProductionEngineReturns(r)
    \/ \E r \in 1..MaxRuns : QCReturns(r)
    \/ \E r \in 1..MaxRuns : RegenerationEngineReturns(r)
    \/ \E r \in 1..MaxRuns : ReReviewReturns(r)
    \/ handleReset
    \/ OpenEditModal
    \/ CloseEditModal
    \/ handleManualRegenerate
    \/ ManualEngineReturns

Spec == Init /\ [][Next]_vars

(***************************************************************************)
(* Sessions of uploads and starts.  The file input is never disabled       *)
(* (lines 567-572) and the start button is enabled whenever the state is   *)
(* 'idle' or 'complete' (lines 633-635), so a third run can start from the *)
(* cache while the first one is still in flight.  Such a session takes     *)
(* MaxSharedClicks clicks; it is explored with every detection finding at  *)
(* most one event and the direction provider never delivering a plan.      *)
(***************************************************************************)
SharedSession ==
    \A r \in 1..MaxRuns :
        /\ Len(runs[r].evs) <= 1
        /\ Len(runs[r].detected) <= 1
        /\ \A j \in 1..Len(runs[r].evs) : heap[runs[r].evs[j]].layers = Null

\* The constructed application with a click budget of MaxSharedClicks.
InitShared ==
    /\ EngineIdle
    /\ demoMode = TRUE
    /\ hasApiKey = FALSE
    /\ AppConstructed
    /\ userActions = MaxUserActions - MaxSharedClicks

NextShared ==
    \/ handleFileUpload /\ SharedSession'
    \/ startProcessing /\ SharedSession'
    \/ \E r \in 1..MaxRuns : SpotterReturns(r) /\ SharedSession'
    \/ \E r \in 1..MaxRuns : DirectorReturns(r) /\ SharedSession'
    \/ \E r \in 1..MaxRuns : ProductionEngineReturns(r) /\ SharedSession'
    \/ \E r \in 1..MaxRuns : QCReturns(r) /\ SharedSession'
    \/ \E r \in 1..MaxRuns : RegenerationEngineReturns(r) /\ SharedSession'
    \/ \E r \in 1..MaxRuns : ReReviewReturns(r) /\ SharedSession'

SpecShared == InitShared /\ [][NextShared]_vars

(***************************************************************************)
(* Claims about the engine (checked under SpecEngine).                     *)
(***************************************************************************)
SoundSources == {MONGODB, ELEVENLABS, PENDING}

\* The store answered the search with a top candidate scoring above the
\* acceptance threshold.
StoreReturnedAboveThreshold ==
    /\ hist.search.kind = "json"
    /\ hist.search.top.present
    /\ hist.search.top.score > Threshold

\* The lookup did not produce a hit: no search was made, or it was rejected.
CacheMissed == searchMongoDB(hist.search) = NoDoc

\* Synthesis did not deliver audio: no key, a transport fault, a provider
\* error, or an unreadable body.
SynthesisFailed ==
    \/ ~hasApiKey
    \/ hist.synth \in {"notok", "throws"}
    \/ hist.read = "throws"

SynthesisSucceeded == hist.synth = "ok" /\ hist.read = "ok"

\* C2: produceSoundAsset never raises to its caller: whatever the embedding,
\* search, synthesis and cache-write calls do, no exception leaves the
\* invocation, and a finished invocation has returned {source, audioUrl, log}.
C2_NeverRaises ==
    /\ ~ethrown
    /\ epc # "thrown"
    /\ epc = "done" =>
         /\ eresult.source \in SoundSources
         /\ eresult.audioUrl \in {StoredAudio, SynthAudio, Placeholder}
         /\ eresult.log # Null

\* C2 witness: an invocation returned although both the embedding provider
\* and the synthesis request threw.
C2_Witness ==
    /\ epc = "done"
    /\ hist.embed = "throws"
    /\ hist.synth = "throws"
    /\ eresult # NoResult

\* C3 as stated: whenever the store returns a top candidate whose score
\* exceeds the threshold, the invocation makes no synthesis call and returns
\* that candidate as a cache hit.
C3_AsStated ==
    StoreReturnedAboveThreshold =>
        /\ synthCalls = 0
        /\ epc = "done" => eresult = HitResult(hist.search.top)

\* C3 amended: whenever the store returns a top candidate that carries audio
\* data and whose score exceeds the threshold, the invocation makes no
\* synthesis call and returns that candidate as a cache hit.
C3_HitAvoidsSynthesis ==
    (StoreReturnedAboveThreshold /\ hist.search.top.hasAudio) =>
        /\ synthCalls = 0
        /\ epc = "done"
        /\ eresult = HitResult(hist.search.top)
        /\ eresult.source = MONGODB
        /\ eresult.audioUrl = StoredAudio

\* C3 witness: a candidate scoring 0.75 with audio data was returned as a hit.
C3_Witness ==
    /\ epc = "done"
    /\ hist.search.kind = "json"
    /\ hist.search.top = [present |-> TRUE, score |-> 75, hasAudio |-> TRUE]
    /\ eresult.source = MONGODB
    /\ synthCalls = 0

\* C4 as stated: when the lookup misses and synthesis fails, the invocation
\* returns one fixed placeholder result: the placeholder asset, provenance
\* 'pending', and a note.
C4_PlaceholderIsPending ==
    (epc = "done" /\ CacheMissed /\ SynthesisFailed) =>
        /\ eresult.audioUrl = Placeholder
        /\ eresult.source = PENDING

\* C5 as stated: when the embedding provider fails, the store search is
\* skipped, synthesis is called, and on synthesis success the result has
\* provenance 'synthesized'; nothing is raised.
C5_EmbeddingFailureSynthesizes ==
    (epc = "done" /\ hist.embed # "values" /\ SynthesisSucceeded) =>
        /\ searchCalls = 0
        /\ synthCalls = 1
        /\ ~ethrown
        /\ eresult.audioUrl = SynthAudio
        /\ eresult.source = ELEVENLABS

(***************************************************************************)
(* Claims about the application (checked under Spec).                      *)
(***************************************************************************)
Live == {o \in ObjIds : heap[o].status # "free"}

Started(r) == runs[r].pc \in {"idle", "finished"} /\ InFlight(r)'

C7_NoFailureAfterDirection ==
    \A r \in 1..MaxRuns :
        runs[r].outcome = "failed" =>
            runs[r].failedAt \in {"detection", "direction"}

\* C8: at every point of a run after detection, the run's event sequence has
\* the ids detection produced, in the same order, and so has the sequence a
\* completed run ends with.
C8_SameIdsSameOrder ==
    \A r \in 1..MaxRuns :
        /\ (InFlight(r) /\ runs[r].pc # "spotting") =>
               Ids(heap, runs[r].evs) = runs[r].detected
        /\ runs[r].outcome = "complete" =>
               [j \in 1..Len(runs[r].final) |-> runs[r].final[j].id]
                   = runs[r].detected

\* C8 witness: a run of two events is in a re-review after regenerating the
\* second event, the director having planned for fewer events than detected.
C8_Witness ==
    \E r \in 1..MaxRuns :
        /\ runs[r].pc = "rereview"
        /\ Len(runs[r].detected) = MaxEvents
        /\ runs[r].detected[1] # runs[r].detected[2]
        /\ heap[runs[r].evs[1]].layers = "plan"
        /\ heap[runs[r].evs[2]].layers = "default"
        /\ heap[runs[r].evs[2]].regenerationCount = 1

\* C9: a run calls detection only when the session cache is empty; once a
\* detection has succeeded the cache stays filled until the next upload, so
\* that every run started before that upload calls no detection and works
\* on exactly the cached events.
C9_DetectionOnlyWhenCacheEmpty ==
    /\ [](cacheVideo # 0 => spottedCache.valid)
    /\ [][\A r \in 1..MaxRuns :
          Started(r) =>
              IF spottedCache.valid
              THEN /\ runs'[r].pc = "directing"
                   /\ runs'[r].detected = Ids(heap, spottedCache.events)
                   /\ Ids(heap', runs'[r].evs) = runs'[r].detected
              ELSE runs'[r].pc = "spotting"]_vars

\* C9 witness: with no upload in between, a second run works on the events
\* the first run's detection cached.
C9_Witness ==
    \E r \in 1..MaxRuns :
        /\ runs[r].fromCache
        /\ runs[r].pc = "producing"
        /\ Len(runs[r].evs) = MaxEvents
        /\ detections = 1
        /\ file = 1

\* C10 as stated: in every reachable state a non-empty session cache holds
\* the detection output of the currently loaded video.
C10_CacheIsOfLoadedVideo == spottedCache.valid => cacheVideo = file

\* The objects a sequence of references denotes in heap h.
Values(h, sq) == [j \in 1..Len(sq) |-> h[sq[j]]]

\* C11: uploading a video empties the session cache and the event sequence;
\* changing the direction label leaves both as they were.
C11_UploadClearsVibeKeeps ==
    [][/\ file' # file => (events' = <<>> /\ ~spottedCache'.valid)
       /\ vibe' # vibe =>
             /\ Values(heap', events') = Values(heap, events)
             /\ spottedCache'.valid = spottedCache.valid
             /\ Values(heap', spottedCache'.events)
                    = Values(heap, spottedCache.events)]_vars

\* C11 witness: a second video was uploaded after a detection had filled
\* the cache, and the cache and the event sequence are empty.
C11_Witness ==
    /\ file = 2
    /\ detections = 1
    /\ ~spottedCache.valid
    /\ events = <<>>

\* C12: when detection fails the run is over at once, without a direction,
\* engine or review call; the session cache and the event sequence are as
\* they were (the cache is not filled by the run) and the state is 'idle'.
C12_DetectionFailureAborts ==
    [][\A r \in 1..MaxRuns :
          (runs[r].pc = "spotting" /\ runs'[r].pc # "directing" /\ runs'[r] # runs[r]) =>
              /\ runs'[r].pc = "finished"
              /\ runs'[r].outcome = "failed"
              /\ runs'[r].failedAt = "detection"
              /\ state' = "idle"
              /\ spottedCache'.valid = spottedCache.valid
              /\ Values(heap', spottedCache'.events)
                     = Values(heap, spottedCache.events)
              /\ Values(heap', events') = Values(heap, events)
              /\ detections' = detections]_vars

\* C12 witness: a run has ended at a failed detection, with the cache still
\* empty and the state back to 'idle'.
C12_Witness ==
    \E r \in 1..MaxRuns :
        /\ runs[r].pc = "finished"
        /\ runs[r].failedAt = "detection"
        /\ state = "idle"
        /\ file = 1
        /\ ~spottedCache.valid
        /\ events = <<>>

\* C13: when direction fails the run is over at once, without an engine or
\* review call, and every event is as it was before the direction call.
C13_DirectionFailureAborts ==
    [][\A r \in 1..MaxRuns :
          (runs[r].pc = "directing" /\ runs'[r].pc = "finished") =>
              /\ runs'[r].outcome = "failed"
              /\ runs'[r].failedAt = "direction"
              /\ state' = "idle"
              /\ Values(heap', events') = Values(heap, events)
              /\ Values(heap', spottedCache'.events)
                     = Values(heap, spottedCache.events)]_vars

\* C13 witness: a run has ended at a failed direction call and the detected
\* events are shown as detection left them.
C13_Witness ==
    \E r \in 1..MaxRuns :
        /\ runs[r].pc = "finished"
        /\ runs[r].failedAt = "direction"
        /\ state = "idle"
        /\ Len(events) = MaxEvents
        /\ \A o \in Range(events) :
               /\ heap[o].status = "detected"
               /\ heap[o].layers = Null
               /\ heap[o].audioUrl = Null

\* A run that is past its direction call.
PastDirection(r) == runs[r].pc \in {"producing", "qc", "regenerating", "rereview"}

\* C14 as stated: a direction answer with fewer triples than events, or an
\* empty one, aborts the run and gives no event layers; so every event of a
\* run that goes on past direction has the layers of its own triple.
C14_ShortPlanAborts ==
    \A r \in 1..MaxRuns :
        PastDirection(r) =>
            \A o \in Range(runs[r].evs) : heap[o].layers = "plan"

\* The edges of the status machine the claim names.
Edges ==
    {<<"detected", "directing">>, <<"directing", "sourcing">>,
     <<"sourcing", "reviewing">>, <<"reviewing", "ready">>,
     <<"reviewing", "rejected">>, <<"rejected", "sourcing">>}

\* Pairs of statuses joined by a path of at most n edges.
RECURSIVE PathsUpTo(_)
PathsUpTo(n) ==
    IF n = 1 THEN Edges
    ELSE LET P == PathsUpTo(n - 1)
         IN P \cup {<<x[1][1], x[2][2]>> :
                       x \in {y \in P \X Edges : y[1][2] = y[2][1]}}

\* C15 as stated, read generously: between two steps of a run, the status
\* of each of its events stays or moves along a path of edges of
\* detected -> directing -> sourcing -> reviewing -> {ready | rejected} and
\* rejected -> sourcing (several edges may be taken within one step).
C15_StatusFollowsEdges ==
    [][\A r \in 1..MaxRuns :
          (InFlight(r) /\ InFlight(r)' /\ Len(runs[r].evs) = Len(runs'[r].evs)) =>
              \A j \in 1..Len(runs[r].evs) :
                  \/ heap'[runs'[r].evs[j]].status = heap[runs[r].evs[j]].status
                  \/ <<heap[runs[r].evs[j]].status,
                       heap'[runs'[r].evs[j]].status>> \in PathsUpTo(6)]_vars

\* C16 as stated: in production an event is 'reviewing' from the moment its
\* asset is attached until the review's verdict for it is applied.
C16_ReviewingAfterAttach ==
    \A r \in 1..MaxRuns :
        /\ runs[r].pc = "producing" =>
               \A j \in 1..(runs[r].i - 1) :
                   heap[runs[r].evs[j]].status = "reviewing"
        /\ runs[r].pc = "qc" =>
               \A j \in 1..Len(runs[r].evs) :
                   heap[runs[r].evs[j]].status = "reviewing"

\* C17 as stated, for the failing verdicts that send the run into another
\* regeneration round: right after the review call (the initial review or a
\* re-review) each event with such a verdict is 'rejected' and its
\* qcFeedback is that verdict's feedback.
C17_VerdictsApplied ==
    [][\A r \in 1..MaxRuns :
          (runs[r].pc \in {"qc", "rereview"} /\ runs'[r].pc = "regenerating") =>
              \A j \in 1..Len(runs'[r].rejected) :
                  /\ heap'[runs'[r].evs[runs'[r].rejected[j].eventIndex]].status
                         = "rejected"
                  /\ heap'[runs'[r].evs[runs'[r].rejected[j].eventIndex]].qcFeedback
                         = runs'[r].rejected[j].feedback]_vars

\* C18 as stated: an event that fails every review of a run (the initial
\* review and the re-review of every round) ends the run 'ready', with
\* regenerationCount MAX_REGENERATION_ATTEMPTS and with the feedback of the
\* last review as its qcFeedback.
C18_ExhaustedEventKeepsLastFeedback ==
    [][\A r \in 1..MaxRuns :
          (runs[r].pc = "rereview" /\ runs'[r].outcome = "complete") =>
              \A j \in 1..Len(runs'[r].final) :
                  runs'[r].final[j].failedLast =>
                      /\ heap'[events'[j]].status = "ready"
                      /\ heap'[events'[j]].regenerationCount
                             = MAX_REGENERATION_ATTEMPTS
                      /\ heap'[events'[j]].audioUrl # Null
                      /\ heap'[events'[j]].qcFeedback
                             \in Feedbacks(MAX_REGENERATION_ATTEMPTS)]_vars

\* C19 as stated: in every reachable state an event has an audio asset if
\* and only if its status is 'reviewing' or 'ready'.
C19_AudioIffReviewingOrReady ==
    \A o \in Range(events) :
        heap[o].audioUrl # Null <=> heap[o].status \in {"reviewing", "ready"}

\* C20 as stated: in every reachable state an event has layers if and only
\* if its status is 'sourcing' or a later one; no event is produced,
\* reviewed or marked ready without layers.
C20_LayersIffSourcingOrLater ==
    \A o \in Range(events) :
        heap[o].layers # Null
            <=> heap[o].status \in {"sourcing", "reviewing", "rejected", "ready"}

\* C21 as stated: in every reachable state an event carries qcFeedback only
\* while its status is 'rejected'.
C21_FeedbackOnlyWhileRejected ==
    \A o \in Range(events) :
        heap[o].qcFeedback # Null => heap[o].status = "rejected"

\* The positions of a run's sequence named by a list of verdicts.
Indexes(list) == {list[q].eventIndex : q \in 1..Len(list)}

\* C22 as stated: the events a re-review treats as rejected are among the
\* events the round that just ended resubmitted; an event that was not
\* resubmitted is not flagged, whatever the reviewer says about it.
C22_OnlyRegeneratedFlagged ==
    [][\A r \in 1..MaxRuns :
          (runs[r].pc = "rereview" /\ runs'[r].pc # "rereview") =>
              LET flagged ==
                      IF runs'[r].pc = "finished"
                      THEN {j \in 1..Len(runs'[r].final) :
                               runs'[r].final[j].failedLast}
                      ELSE Indexes(runs'[r].rejected)
              IN flagged \subseteq Indexes(runs[r].rejected)]_vars

\* C23 as stated: when a manual edit completes, the edited event has the
\* engine's asset and provenance, a regenerationCount one higher than
\* before, the feedback, and status 'ready'; every other event of the
\* sequence is as it was.
C23_ManualEditFrame ==
    [][(edit.pc = "engine" /\ edit'.pc = "idle") =>
          /\ Len(events') = Len(events)
          /\ edit.eventIndex \in 1..Len(events)
          /\ \A j \in 1..Len(events) :
                IF j = edit.eventIndex
                THEN /\ heap'[events'[j]].status = "ready"
                     /\ heap'[events'[j]].audioUrl # Null
                     /\ heap'[events'[j]].source # Null
                     /\ heap'[events'[j]].userFeedback = "feedback"
                     /\ heap'[events'[j]].regenerationCount
                            = Count(heap[events[j]]) + 1
                ELSE heap'[events'[j]] = heap[events[j]]]_vars

\* The same, for a manual edit that completes while no run is in flight and
\* the sequence is the one the edit started from.
QuietManualEditFrame ==
    [][(/\ edit.pc = "engine" /\ edit'.pc = "idle"
        /\ \A r \in 1..MaxRuns : ~InFlight(r)
        /\ events = edit.updated) =>
          /\ Len(events') = Len(events)
          /\ \A j \in 1..Len(events) :
                IF j = edit.eventIndex
                THEN /\ heap'[events'[j]].status = "ready"
                     /\ heap'[events'[j]].userFeedback = "feedback"
                     /\ heap'[events'[j]].regenerationCount
                            = Count(heap[events[j]]) + 1
                ELSE heap'[events'[j]] = heap[events[j]]]_vars

\* A step of handleReset: the only click that takes the state from
\* 'complete' to 'idle' with the same video loaded.
ResetStep ==
    /\ state = "complete"
    /\ state' = "idle"
    /\ file' = file
    /\ userActions' = userActions + 1

\* C24 as stated: a reset with a non-empty session cache leaves the cache as
\* it was and makes the event sequence the cached detection events, in the
\* same order, each 'detected' and without layers, provenance or audio asset.
C24_ResetRestoresDetection ==
    [][(ResetStep /\ spottedCache.valid) =>
          /\ spottedCache'.valid
          /\ Values(heap', spottedCache'.events)
                 = Values(heap, spottedCache.events)
          /\ Ids(heap', events') = Ids(heap, spottedCache.events)
          /\ \A o \in Range(events') :
                /\ heap'[o].status = "detected"
                /\ heap'[o].layers = Null
                /\ heap'[o].source = Null
                /\ heap'[o].audioUrl = Null]_vars

\* C25 as stated: a run takes the failure exit (error log, state back to
\* 'idle', no completion) only at its detection call or its direction call;
\* no answer of the reviewer and no result of the engine makes it fail.
C25_OnlyTwoFatalCalls ==
    [][\A r \in 1..MaxRuns :
          (InFlight(r) /\ runs'[r].outcome = "failed") =>
              /\ runs[r].pc \in {"spotting", "directing"}
              /\ state' = "idle"]_vars

\* C26 as stated: at most one run is in flight, because startProcessing
\* cannot begin while an earlier invocation has not finished: in every
\* reachable state with a run in flight the start button is disabled (or no
\* video is loaded), and no two invocations are in flight together.
C26_OneRunInFlight ==
    /\ (\E r \in 1..MaxRuns : InFlight(r)) => ~StartEnabled
    /\ Cardinality({r \in 1..MaxRuns : InFlight(r)}) <= 1

\* A step of a user operation: a click, or the completion of a manual edit.
UserStep == userActions' # userActions \/ edit'.pc # edit.pc

\* C27 as stated: while a run is in flight no user operation (upload, reset,
\* manual edit) changes the event sequence, and no step of a run or of a
\* manual edit replaces the sequence by an older snapshot: an applied manual
\* edit is not lost to a step of a run, and the completion of a manual edit
\* changes no event but the edited one.
C27_RunOwnsSequence ==
    [][/\ ((\E r \in 1..MaxRuns : InFlight(r)) /\ UserStep) =>
              Values(heap', events') = Values(heap, events)
       /\ ~UserStep =>
              \A j \in 1..Len(events) :
                  heap[events[j]].userFeedback # Null =>
                      /\ j <= Len(events')
                      /\ heap'[events'[j]].userFeedback # Null
       /\ (edit.pc = "engine" /\ edit'.pc = "idle") =>
              /\ Len(events') = Len(events)
              /\ \A j \in 1..Len(events) :
                    j # edit.eventIndex => heap'[events'[j]] = heap[events[j]]]_vars

\* A cache write settles in this step.
WriteSettles ==
    \E c \in 1..MaxCalls : cacheWrite[c] = "posting" /\ cacheWrite'[c] # "posting"

\* C28: after a successful synthesis produceSoundAsset returns with its
\* cache write still pending, and the returned result is not touched when
\* the write later succeeds or fails (or never settles).
C28_CacheWriteDetached ==
    [][/\ (epc = "reading" /\ epc' = "done") =>
              /\ eresult' \in {SynthResult(demoMode, b) : b \in BOOLEAN}
              /\ embedding # Null => cacheWrite'[calls] = "posting"
              /\ embedding = Null => cacheWrite'[calls] = "none"
       /\ WriteSettles =>
              /\ epc' = epc
              /\ eresult' = eresult
              /\ ethrown' = ethrown]_vars

\* C28 witness: an invocation has returned a synthesized asset and its cache
\* write has failed afterwards.
C28_Witness ==
    /\ epc = "done"
    /\ calls = 1
    /\ eresult.audioUrl = SynthAudio
    /\ cacheWrite[1] = "failed"

\* C29: in production a run calls the engine for its events one at a time,
\* in detection order: the loop starts at the first event; each return of
\* the engine attaches the result to the event the call was made for and to
\* no other, shows the sequence, and only then is the call for the next
\* event (or, after the last one, the review) made.
C29_ProductionInOrder ==
    /\ [](\A r \in 1..MaxRuns :
            runs[r].pc = "producing" =>
                /\ runs[r].i \in 1..Len(runs[r].evs)
                /\ Ids(heap, runs[r].evs) = runs[r].detected
                /\ \A j \in 1..(runs[r].i - 1) :
                       /\ heap[runs[r].evs[j]].audioUrl # Null
                       /\ heap[runs[r].evs[j]].source # Null)
    /\ [][\A r \in 1..MaxRuns :
            /\ (runs[r].pc = "directing" /\ runs'[r].pc = "producing") =>
                   runs'[r].i = 1
            /\ (/\ runs[r].pc = "producing"
                /\ (runs'[r].pc # "producing" \/ runs'[r].i # runs[r].i)) =>
                   /\ Len(runs'[r].evs) = Len(runs[r].evs)
                   /\ IF runs[r].i < Len(runs[r].evs)
                      THEN runs'[r].pc = "producing" /\ runs'[r].i = runs[r].i + 1
                      ELSE runs'[r].pc = "qc"
                   /\ \A j \in 1..Len(runs[r].evs) :
                          IF j = runs[r].i
                          THEN heap'[runs'[r].evs[j]] \in
                                   {Produced(heap[runs[r].evs[j]], res) :
                                       res \in EngineResults(demoMode, hasApiKey)}
                          ELSE heap'[runs'[r].evs[j]] = heap[runs[r].evs[j]]
                   /\ Values(heap', events') = Values(heap', runs'[r].evs)]_vars

\* C29 witness: a run of two events awaits the engine for its second event;
\* the first has its asset, the second has none yet.
C29_Witness ==
    \E r \in 1..MaxRuns :
        /\ runs[r].pc = "producing"
        /\ runs[r].i = 2
        /\ Len(runs[r].evs) = MaxEvents
        /\ heap[runs[r].evs[1]].audioUrl # Null
        /\ heap[runs[r].evs[1]].status = "ready"
        /\ heap[runs[r].evs[2]].audioUrl = Null
        /\ heap[runs[r].evs[2]].status = "sourcing"

\* A step in which run r resumes from an engine call of its production loop.
ProductionStep(r) ==
    /\ runs[r].pc = "producing"
    /\ (runs'[r].pc # "producing" \/ runs'[r].i # runs[r].i)

\* C30: when synthesis fails for an event (here: no API key, so every call
\* ends in the fallback), the event gets the placeholder asset and the run
\* is not aborted: it goes on to the next event, and after the last one to
\* the review with every event produced; a regeneration that fails the same
\* way goes on to the next rejection or to the re-review.
C30_PlaceholderKeepsBatchRunning ==
    [][\A r \in 1..MaxRuns :
          /\ ProductionStep(r) =>
                /\ ~hasApiKey =>
                       heap'[runs'[r].evs[runs[r].i]].audioUrl = Placeholder
                /\ runs'[r].outcome = "none"
                /\ runs'[r].pc \in {"producing", "qc"}
                /\ runs'[r].pc = "qc" =>
                       \A o \in Range(runs'[r].evs) : heap'[o].audioUrl # Null
          /\ (runs[r].pc = "regenerating" /\ runs'[r].k # runs[r].k) =>
                /\ runs'[r].outcome = "none"
                /\ runs'[r].pc \in {"regenerating", "rereview"}]_vars

\* C30 witness: a run of two events has completed with the placeholder asset
\* on both.
C30_Witness ==
    \E r \in 1..MaxRuns :
        /\ runs[r].outcome = "complete"
        /\ Len(runs[r].final) = MaxEvents
        /\ state = "complete"
        /\ Len(events) = MaxEvents
        /\ \A o \in Range(events) :
               /\ heap[o].audioUrl = Placeholder
               /\ heap[o].status = "ready"

\* C31 as stated: in a regeneration round each rejected event below the cap
\* gets one engine call and its regenerationCount raised by 1, so during
\* and after round k no event of the run has a regenerationCount above k.
C31_OneCallPerRound ==
    \A r \in 1..MaxRuns :
        runs[r].pc \in {"regenerating", "rereview"} =>
            \A o \in Range(runs[r].evs) : Count(heap[o]) <= runs[r].round

\* C32 as stated: the store search answers from the keyword match exactly
\* when the vector index is unavailable, and a candidate it then returns has
\* the one fixed synthetic score, which is lower than the score of every
\* candidate the engine accepts.
C32_KeywordFallbackScoresLower ==
    hist.search.kind = "json" =>
        /\ hist.search.via = "text" <=> hist.search.store.index = "unavailable"
        /\ (hist.search.via = "text" /\ hist.search.top.present) =>
               /\ hist.search.top.score = TextFallbackScore
               /\ \A c \in Candidates :
                      Accepts(c) => hist.search.top.score < c.score

\* A step of handleManualRegenerate's click: the only click that leaves
\* the video, the label, the processing state and every run where they are.
ManualClick ==
    /\ userActions' # userActions
    /\ file' = file
    /\ vibe' = vibe
    /\ state' = state
    /\ \A r \in 1..MaxRuns : runs'[r].pc = runs[r].pc

\* C33: a manual edit of an event of the sequence makes its engine call
\* whatever the event's regenerationCount is, makes one engine call only
\* (the edit is over when that call returns) and no review call (no run
\* moves and the processing state stays as it is).
C33_ManualEditOneCallNoCap ==
    [][/\ (ManualClick /\ FindIndex(heap, events, editingEvent) # 0) =>
              /\ edit.pc = "idle"
              /\ edit'.pc = "engine"
       /\ (edit.pc = "engine" /\ edit'.pc # "engine") =>
              /\ edit'.pc = "idle"
              /\ manualEdits' = manualEdits + 1
              /\ state' = state
              /\ \A r \in 1..MaxRuns : runs'[r].pc = runs[r].pc]_vars

\* C33 witness: the engine call of a manual edit is pending for an event
\* whose regenerationCount is already MAX_REGENERATION_ATTEMPTS.
C33_Witness ==
    /\ edit.pc = "engine"
    /\ Count(heap[edit.evt]) = MAX_REGENERATION_ATTEMPTS

\* The agent role of each stage (types.ts: AgentRole).
StageRole(at) ==
    IF at = "detection" THEN "SPOTTER"
    ELSE IF at = "direction" THEN "DIRECTOR"
    ELSE IF at = "review" THEN "QC"
    ELSE "none"

\* C34 as stated: the log entry of a failed run is attributed to the stage
\* that failed: detection failures to the detection stage, direction
\* failures to the direction stage.
C34_FailureLoggedUnderItsStage ==
    \A r \in 1..MaxRuns :
        runs[r].outcome = "failed" =>
            runs[r].errorRole = StageRole(runs[r].failedAt)

\* C35 as stated: a returned result has the cache-hit provenance only when
\* the store returned a candidate with audio data scoring above the
\* threshold, and its audio is then that candidate's; synthesized audio and
\* the placeholder are never reported as a cache hit.
C35_CacheHitOnlyFromStore ==
    (epc = "done" /\ eresult.source = MONGODB) =>
        /\ StoreReturnedAboveThreshold
        /\ hist.search.top.hasAudio
        /\ eresult.audioUrl = StoredAudio

\* C36 as stated: in every reachable state each event of the session cache
\* is as detection made it: status 'detected' and no layers, provenance,
\* audio asset or regenerationCount.
C36_CacheEventsPristine ==
    \A o \in Range(spottedCache.events) :
        /\ heap[o].status = "detected"
        /\ heap[o].layers = Null
        /\ heap[o].source = Null
        /\ heap[o].audioUrl = Null
        /\ heap[o].regenerationCount = NoCount

\* C37 as stated: when the keyword fallback answered the search and the
\* invocation returned a cache hit, the stored asset matches a term of the
\* event's description or of the style label, not only the appended words.
C37_KeywordHitIsRelated ==
    (epc = "done" /\ hist.search.via = "text" /\ eresult.audioUrl = StoredAudio) =>
        TextMatch(hist.search.store.doc,
                  SearchTerms(QueryDescription \cup QueryVibe))

\* C38: an invocation writes to the asset store at most once, and only on
\* returning a synthesized asset for which it has an embedding: a write is
\* started only by the step that returns after a successful synthesis with
\* an embedding, a started write is never started again, and an invocation
\* that returned a cache hit, a placeholder, or a synthesized asset without
\* an embedding has started none.
C38_WritesOnceAfterSynthesis ==
    /\ []((epc = "done" /\ calls > 0) =>
            (cacheWrite[calls] # "none"
                <=> (eresult.audioUrl = SynthAudio /\ embedding # Null)))
    /\ [][\A c \in 1..MaxCalls :
            /\ (cacheWrite[c] = "none" /\ cacheWrite'[c] # "none") =>
                   /\ c = calls
                   /\ cacheWrite'[c] = "posting"
                   /\ epc = "reading" /\ epc' = "done"
                   /\ hist'.synth = "ok" /\ hist'.read = "ok"
                   /\ embedding # Null
            /\ cacheWrite[c] = "posting" =>
                   cacheWrite'[c] \in {"posting", "stored", "failed"}
            /\ cacheWrite[c] \in {"stored", "failed"} =>
                   cacheWrite'[c] = cacheWrite[c]]_vars

\* C38 witness: an invocation returned a synthesized asset and its one write
\* has been stored.
C38_Witness ==
    /\ epc = "done"
    /\ calls = 1
    /\ eresult.audioUrl = SynthAudio
    /\ embedding # Null
    /\ cacheWrite[1] = "stored"

RECURSIVE SumCalls(_, _)
SumCalls(made, n) == IF n = 0 THEN 0 ELSE made[n] + SumCalls(made, n - 1)

EngineCalls(run) ==
    (IF run.pc = "producing" THEN run.i - 1 ELSE Len(run.evs))
    + SumCalls(run.calls, Len(run.calls))

\* C40 as stated: a run over n events calls the engine at most
\* MAX_REGENERATION_ATTEMPTS times per event in its regeneration rounds and
\* at most n * (1 + MAX_REGENERATION_ATTEMPTS) times in total, whatever the
\* reviewer answers.
C40_EngineCallsBounded ==
    \A r \in 1..MaxRuns :
        runs[r].pc \in {"producing", "qc", "regenerating", "rereview"} =>
            /\ \A j \in 1..Len(runs[r].calls) :
                   runs[r].calls[j] <= MAX_REGENERATION_ATTEMPTS
            /\ EngineCalls(runs[r])
                   <= Len(runs[r].evs) * (1 + MAX_REGENERATION_ATTEMPTS)

====
